---- MODULE Spec2Model ----
(***************************************************************************)
(* Model of calc_imaginary_ir (src/src/main.cpp): a line of text is lexed  *)
(* by a pull-based Lexer, parsed by a recursive-descent Parser into an     *)
(* expression AST and lowered by SimpleCodeGenerator into register IR.     *)
(*                                                                         *)
(* A std::string is a sequence of one-character strings; positions are     *)
(* zero-based as in the source, so the character m_text[m_pos] is          *)
(* text[pos + 1] here.                                                     *)
(***************************************************************************)
EXTENDS Integers, Sequences, FiniteSets, TLC

\* ------------------------------------------------------------------ bounds

\* Longest input line drawn from the full alphabet.
MaxLen == 3

\* Longest input line drawn from the expression alphabet.
MaxExprLen == 5

\* Most Generate calls made on one generator object in SpecReuse.
MaxCalls == 2

\* Longest line whose tree is handed to Generate in SpecReuse.
MaxReuseLen == 3

\* ------------------------------------------------------- character classes

Digits == <<"0", "1", "2", "3", "4", "5", "6", "7", "8", "9">>

DigitSet == {Digits[i] : i \in 1..10}

LetterSet ==
    {"a", "b", "c", "d", "e", "f", "g", "h", "i", "j", "k", "l", "m",
     "n", "o", "p", "q", "r", "s", "t", "u", "v", "w", "x", "y", "z",
     "A", "B", "C", "D", "E", "F", "G", "H", "I", "J", "K", "L", "M",
     "N", "O", "P", "Q", "R", "S", "T", "U", "V", "W", "X", "Y", "Z"}

\* std::isspace in the "C" locale (the vertical tab, which no line here
\* holds, has no escape in a TLA+ string).
IsSpace(ch) == ch \in {" ", "\t", "\n", "\r", "\f"}

IsDigit(ch) == ch \in DigitSet

IsAlpha(ch) == ch \in LetterSet

IsAlnum(ch) == IsAlpha(ch) \/ IsDigit(ch)

\* A local variable initialised once: LET x == v IN F(x), with v evaluated
\* once however often F uses x.
With(v, F(_)) == CHOOSE y \in {F(x) : x \in {v}} : TRUE

\* ------------------------------------------------------------------- Token

\* Token { type, value }: value is <<>> where the optional holds nothing.
Token(type, value) == [type |-> type, value |-> value]

NoError == [kind |-> "none", pos |-> 0, ch |-> "", what |-> ""]

\* std::invalid_argument thrown by Lexer::GetNextToken.
LexError(pos, ch) ==
    [kind |-> "LexError", pos |-> pos, ch |-> ch,
     what |-> "can't parse character at pos"]

\* std::runtime_error thrown by Parser::Eat and Parser::ParseAtom.
ParseError(what) == [kind |-> "ParseError", pos |-> 0, ch |-> "", what |-> what]

\* std::out_of_range thrown by std::stoi.
StoiError == [kind |-> "out_of_range", pos |-> 0, ch |-> "", what |-> "stoi"]

\* ------------------------------------------------------------------- Lexer

RECURSIVE SkipWhitespaces(_, _)
SkipWhitespaces(text, pos) ==
    IF pos < Len(text) /\ IsSpace(text[pos + 1])
    THEN SkipWhitespaces(text, pos + 1)
    ELSE pos

\* The loop `while (m_pos < length && isdigit(m_text[m_pos])) chars += ...`.
RECURSIVE ScanDigits(_, _)
ScanDigits(text, pos) ==
    IF pos < Len(text) /\ IsDigit(text[pos + 1])
    THEN ScanDigits(text, pos + 1)
    ELSE pos

RECURSIVE ScanIdentifier(_, _)
ScanIdentifier(text, pos) ==
    IF pos < Len(text) /\ (IsAlnum(text[pos + 1]) \/ text[pos + 1] = "_")
    THEN ScanIdentifier(text, pos + 1)
    ELSE pos

\* Result of a lexer call: the token, the new m_pos and the exception thrown.
LexResult(tok, pos, err) == [tok |-> tok, pos |-> pos, err |-> err]

ReadAsNumberConstant(text, pos) ==
    LET p1 == ScanDigits(text, pos)
        p2 == IF p1 < Len(text) /\ text[p1 + 1] = "."
              THEN ScanDigits(text, p1 + 1)
              ELSE p1
    IN  LexResult(Token("Number", SubSeq(text, pos + 1, p2)), p2, NoError)

ReadAsIdentifier(text, pos) ==
    LET p1 == ScanIdentifier(text, pos)
    IN  LexResult(Token("Identifier", SubSeq(text, pos + 1, p1)), p1, NoError)

\* The token kind of a single-character token.
PunctType(ch) ==
    CASE ch = "+" -> "Plus"
      [] ch = "-" -> "Minus"
      [] ch = "*" -> "Mul"
      [] ch = "/" -> "Div"
      [] ch = "(" -> "LeftParen"
      [] ch = ")" -> "RightParen"
      [] OTHER -> "None"

\* GetNextToken reporting the position the call started from instead of the
\* position of the character it cannot parse.
GetNextTokenReportsStart(text, pos) ==
    LET p == SkipWhitespaces(text, pos)
    IN  IF p >= Len(text)
        THEN LexResult(Token("EndOfFile", <<>>), p, NoError)
        ELSE LET ch == text[p + 1]
             IN  IF IsDigit(ch) THEN ReadAsNumberConstant(text, p)
                 ELSE IF IsAlpha(ch) THEN ReadAsIdentifier(text, p)
                 ELSE IF PunctType(ch) # "None"
                      THEN LexResult(Token(PunctType(ch), <<>>), p + 1, NoError)
                 ELSE LexResult(Token("None", <<>>), p, LexError(pos, ch))

GetNextToken(text, pos) ==
    LET p == SkipWhitespaces(text, pos)
    IN  IF p >= Len(text)
        THEN LexResult(Token("EndOfFile", <<>>), p, NoError)
        ELSE LET ch == text[p + 1]
             IN  IF IsDigit(ch) THEN ReadAsNumberConstant(text, p)
                 ELSE IF IsAlpha(ch) THEN ReadAsIdentifier(text, p)
                 ELSE IF PunctType(ch) # "None"
                      THEN LexResult(Token(PunctType(ch), <<>>), p + 1, NoError)
                 ELSE LexResult(Token("None", <<>>), p, LexError(p, ch))

\* --------------------------------------------------------------------- AST

NoNode == [kind |-> "None"]

NumberAST(value) == [kind |-> "Number", value |-> value]

VariableRefAST(name) == [kind |-> "Variable", name |-> name]

BinaryExpressionAST(left, right, op) ==
    [kind |-> "Binary", left |-> left, right |-> right, op |-> op]

\* ------------------------------------------------------------------ Parser

\* Largest value std::stoi returns; a larger literal throws std::out_of_range.
IntMax == 2147483647

DigitValue(ch) == CHOOSE d \in 0..9 : Digits[d + 1] = ch

\* Value of a run of digits, most significant first; OutOfRange once the
\* value no longer fits an int.
OutOfRange == -1

RECURSIVE DigitsValue(_)
DigitsValue(chars) ==
    IF chars = <<>> THEN 0
    ELSE LET high == DigitsValue(SubSeq(chars, 1, Len(chars) - 1))
             low == DigitValue(chars[Len(chars)])
         IN  IF high = OutOfRange \/ high > (IntMax - low) \div 10
             THEN OutOfRange
             ELSE 10 * high + low

\* std::stoi(value): converts the leading run of digits and stops at the
\* first character that is not a digit; OutOfRange where it throws
\* std::out_of_range.
Stoi(value) == DigitsValue(SubSeq(value, 1, ScanDigits(value, 0)))

\* Parser members: the lexer's m_pos, the lookahead m_token, and the
\* exception that unwinds the parser (NoError while none is thrown).
ParserState(pos, tok, err) == [pos |-> pos, tok |-> tok, err |-> err]

\* Parser::Parser: m_token(m_lexer->GetNextToken()) on a lexer at position 0.
NewParser(text) ==
    With(GetNextToken(text, 0), LAMBDA r : ParserState(r.pos, r.tok, r.err))

Eat(text, ps, type) ==
    IF ps.tok.type # type
    THEN ParserState(ps.pos, ps.tok, ParseError("can't eat that token"))
    ELSE With(GetNextToken(text, ps.pos),
              LAMBDA r : ParserState(r.pos, r.tok, r.err))

\* What a parsing method leaves: the parser state, and the tree it returns
\* (NoNode when it throws).
ParseResult(ps, node) == [ps |-> ps, node |-> node]

Thrown(ps) == ParseResult(ps, NoNode)

RECURSIVE ParseAtom(_, _)
RECURSIVE ParseMulDiv(_, _)
RECURSIVE ParseAddSub(_, _)
RECURSIVE MulDivLoop(_, _, _)
RECURSIVE AddSubLoop(_, _, _)

ParseAtom(text, ps) ==
    IF ps.tok.type = "Number"
    THEN With(Eat(text, ps, "Number"), LAMBDA ps1 :
             IF ps1.err # NoError THEN Thrown(ps1)
             ELSE With(Stoi(ps.tok.value), LAMBDA value :
                  IF value = OutOfRange
                  THEN Thrown([ps1 EXCEPT !.err = StoiError])
                  ELSE ParseResult(ps1, NumberAST(value))))
    ELSE IF ps.tok.type = "Identifier"
    THEN With(Eat(text, ps, "Identifier"), LAMBDA ps1 :
             IF ps1.err # NoError THEN Thrown(ps1)
             ELSE ParseResult(ps1, VariableRefAST(ps.tok.value)))
    ELSE IF ps.tok.type = "LeftParen"
    THEN With(Eat(text, ps, "LeftParen"), LAMBDA ps1 :
             IF ps1.err # NoError THEN Thrown(ps1)
             ELSE With(ParseAddSub(text, ps1), LAMBDA r :
                  IF r.ps.err # NoError THEN Thrown(r.ps)
                  ELSE With(Eat(text, r.ps, "RightParen"), LAMBDA ps2 :
                       IF ps2.err # NoError THEN Thrown(ps2)
                       ELSE ParseResult(ps2, r.node))))
    ELSE Thrown([ps EXCEPT !.err = ParseError("can't parse atom")])

\* The while loop of ParseMulDiv, entered with the tree built so far.
MulDivLoop(text, ps, node) ==
    IF ps.tok.type \in {"Mul", "Div"}
    THEN With(Eat(text, ps, ps.tok.type), LAMBDA ps1 :
             IF ps1.err # NoError THEN Thrown(ps1)
             ELSE With(ParseAtom(text, ps1), LAMBDA r :
                  IF r.ps.err # NoError THEN Thrown(r.ps)
                  ELSE MulDivLoop(text, r.ps,
                           BinaryExpressionAST(node, r.node,
                               IF ps.tok.type = "Mul" THEN "*" ELSE "/"))))
    ELSE ParseResult(ps, node)

ParseMulDiv(text, ps) ==
    With(ParseAtom(text, ps), LAMBDA r :
        IF r.ps.err # NoError THEN Thrown(r.ps)
        ELSE MulDivLoop(text, r.ps, r.node))

\* AddSubLoop parsing the whole rest of the chain as the right operand: the
\* chain then associates to the right.
AddSubLoopRightAssociative(text, ps, node) ==
    IF ps.tok.type \in {"Plus", "Minus"}
    THEN With(Eat(text, ps, ps.tok.type), LAMBDA ps1 :
             IF ps1.err # NoError THEN Thrown(ps1)
             ELSE With(ParseAddSub(text, ps1), LAMBDA r :
                  IF r.ps.err # NoError THEN Thrown(r.ps)
                  ELSE ParseResult(r.ps,
                           BinaryExpressionAST(node, r.node,
                               IF ps.tok.type = "Plus" THEN "+" ELSE "-"))))
    ELSE ParseResult(ps, node)

\* The while loop of ParseAddSub, entered with the tree built so far.
AddSubLoop(text, ps, node) ==
    IF ps.tok.type \in {"Plus", "Minus"}
    THEN With(Eat(text, ps, ps.tok.type), LAMBDA ps1 :
             IF ps1.err # NoError THEN Thrown(ps1)
             ELSE With(ParseMulDiv(text, ps1), LAMBDA r :
                  IF r.ps.err # NoError THEN Thrown(r.ps)
                  ELSE AddSubLoop(text, r.ps,
                           BinaryExpressionAST(node, r.node,
                               IF ps.tok.type = "Plus" THEN "+" ELSE "-"))))
    ELSE ParseResult(ps, node)

ParseAddSub(text, ps) ==
    With(ParseMulDiv(text, ps), LAMBDA r :
        IF r.ps.err # NoError THEN Thrown(r.ps)
        ELSE AddSubLoop(text, r.ps, r.node))

\* ---------------------------------------------------- SimpleCodeGenerator

\* std::to_string(int) for a value >= 0.
RECURSIVE IntToString(_)
IntToString(n) ==
    IF n < 10 THEN <<Digits[n + 1]>>
    ELSE IntToString(n \div 10) \o <<Digits[(n % 10) + 1]>>

\* std::to_string(double), i.e. printf("%f"), of the double a NumberAST
\* holds: ParseAtom builds it from an int, so it has no fractional part.
ToStringDouble(value) ==
    IntToString(value) \o <<".", "0", "0", "0", "0", "0", "0">>

Assign == <<" ", "=", " ">>

NewLine == <<"\n">>

ResultPrefix == <<"%", "r", "e", "s", "u", "l", "t", " ", "=", " ">>

\* The register prefix a Visit method uses before the id.
RegisterPrefix(op) ==
    CASE op = "x" -> <<"%", "x">>
      [] op = "+" -> <<"%", "a", "d", "d", "t", "m", "p">>
      [] op = "-" -> <<"%", "s", "u", "b", "t", "m", "p">>
      [] op = "*" -> <<"%", "m", "u", "l", "t", "m", "p">>
      [] op = "/" -> <<"%", "d", "i", "v", "t", "m", "p">>

\* The mnemonic, with the spaces around it, of an operator instruction.
Mnemonic(op) ==
    CASE op = "+" -> <<"a", "d", "d", " ">>
      [] op = "-" -> <<"s", "u", "b", " ">>
      [] op = "*" -> <<"m", "u", "l", " ">>
      [] op = "/" -> <<"d", "i", "v", " ">>

\* A SimpleCodeGenerator as constructed: empty m_code, empty m_registers,
\* m_registerId = 1.
NewGenerator == [m_code |-> <<>>, m_registers |-> <<>>, m_registerId |-> 1]

\* PushRegister with ++m_registerId in place of m_registerId++.
PushRegisterPreIncrement(g, prefix) ==
    [g EXCEPT !.m_registers = Append(@, prefix \o IntToString(g.m_registerId + 1)),
              !.m_registerId = @ + 1]

\* m_registers.push_back(prefix + std::to_string(m_registerId++)).
PushRegister(g, prefix) ==
    [g EXCEPT !.m_registers = Append(@, prefix \o IntToString(g.m_registerId)),
              !.m_registerId = @ + 1]

Back(regs) == regs[Len(regs)]

PopBack(regs) == SubSeq(regs, 1, Len(regs) - 1)

VisitVariableRef(g, variableRef) ==
    With(PushRegister(g, RegisterPrefix("x")), LAMBDA g1 :
        [g1 EXCEPT !.m_code = @ \o Back(g1.m_registers) \o Assign
                               \o <<"%">> \o variableRef.name \o NewLine])

VisitNumber(g, number) ==
    With(PushRegister(g, RegisterPrefix("x")), LAMBDA g1 :
        [g1 EXCEPT !.m_code = @ \o Back(g1.m_registers) \o Assign
                               \o ToStringDouble(number.value) \o NewLine])

\* EmitBinary taking the first pop for left and the second for right.
EmitBinarySwapped(g, op) ==
    LET left == Back(g.m_registers)
        regs1 == PopBack(g.m_registers)
        right == Back(regs1)
        regs2 == PopBack(regs1)
    IN  With(PushRegister([g EXCEPT !.m_registers = regs2], RegisterPrefix(op)),
             LAMBDA g1 :
                 [g1 EXCEPT !.m_code = @ \o Back(g1.m_registers) \o Assign
                                        \o Mnemonic(op) \o left \o <<" ">>
                                        \o right \o NewLine])

\* EmitBinary reading left without popping it off the stack.
EmitBinaryKeepLeft(g, op) ==
    LET right == Back(g.m_registers)
        regs1 == PopBack(g.m_registers)
        left  == Back(regs1)
    IN  With(PushRegister([g EXCEPT !.m_registers = regs1], RegisterPrefix(op)),
             LAMBDA g1 :
                 [g1 EXCEPT !.m_code = @ \o Back(g1.m_registers) \o Assign
                                        \o Mnemonic(op) \o left \o <<" ">>
                                        \o right \o NewLine])

\* The part of Visit(const BinaryExpressionAST&) after both operands have
\* been visited: pop right, pop left, push the temporary, emit.
EmitBinary(g, op) ==
    LET right == Back(g.m_registers)
        regs1 == PopBack(g.m_registers)
        left  == Back(regs1)
        regs2 == PopBack(regs1)
    IN  With(PushRegister([g EXCEPT !.m_registers = regs2], RegisterPrefix(op)),
             LAMBDA g1 :
                 [g1 EXCEPT !.m_code = @ \o Back(g1.m_registers) \o Assign
                                        \o Mnemonic(op) \o left \o <<" ">>
                                        \o right \o NewLine])

\* ExpressionAST::Accept, dispatching to the Visit overload of the node.
RECURSIVE Visit(_, _)
Visit(g, node) ==
    CASE node.kind = "Variable" -> VisitVariableRef(g, node)
      [] node.kind = "Number" -> VisitNumber(g, node)
      [] node.kind = "Binary" ->
            With(Visit(g, node.left), LAMBDA g1 :
                With(Visit(g1, node.right), LAMBDA g2 :
                    EmitBinary(g2, node.op)))

\* Generate: the generator after the call; the text returned is its m_code.
Generate(g, root) ==
    With(Visit(g, root), LAMBDA g1 :
        [g1 EXCEPT !.m_code = @ \o ResultPrefix \o Back(g1.m_registers)])

\* ------------------------------------------------------------- input lines

\* Characters of the lines read: a digit, a letter, the characters a number
\* or identifier may continue with, every operator and parenthesis, a
\* whitespace character and a character the lexer does not recognise.
Alphabet == {"1", "x", ".", "_", "+", "-", "*", "/", "(", ")", " ", "$"}

\* Characters of the longer lines: atoms, one operator of each precedence
\* level and the parentheses.
ExprAlphabet == {"1", "x", "-", "*", "(", ")"}

Strings(S, n) == UNION {[1..k -> S] : k \in 0..n}

\* Lines of the documentation and of the cases longer than the bounds.
ExampleLines ==
    { <<"(", "1", " ", "+", " ", "2", ")", " ", "/", " ", "3", " ", "*", " ", "5">>,
      <<"a", " ", "-", " ", "b", " ", "-", " ", "c">>,
      <<"a", "/", "b", "/", "c">>,
      <<"1", "+", "2", "*", "3">>,
      <<"1", "*", "2", "+", "3">>,
      <<"1", "-", "(", "2", "-", "3", ")">>,
      <<"1", " ", "+", " ", "(", "2", " ", "*", " ", "3">>,
      <<"1", " ", "+", " ", "2", " ", ")">>,
      <<"1", " ", "$", " ", "2">>,
      <<"1", ".", "5">>,
      <<"1", "2", ".", "2", "5", "+", "0", "7">>,
      <<"9", "9", "9", "9", "9", "9", "9", "9", "9", "9", "9">>,
      <<"a", "+", "b", "+", "a", "d", "d", "t", "m", "p", "3">>,
      <<"a", "+", "a", "+", "a", "+", "a", "+", "a", "+", "a">>,
      <<"\t", "a", "_", "1", " ", "*", "B", "2">> }

InputLines ==
    Strings(Alphabet, MaxLen) \cup Strings(ExprAlphabet, MaxExprLen)
        \cup ExampleLines

\* ------------------------------------------------------------------- main

VARIABLES
    pc,         \* where main stands
    line,       \* the line getline read
    parser,     \* the Parser (with its Lexer) of this line
    ast,        \* the tree ParseAddSub returned, NoNode before
    generator,  \* the SimpleCodeGenerator in use
    calls,      \* Generate calls made on that generator object
    out,        \* the text of this line written to std::cout
    exc,        \* the exception thrown for this line, NoError if none
    errOut      \* the text of this line written to std::cerr

vars == <<pc, line, parser, ast, generator, calls, out, exc, errOut>>

NoParser == ParserState(0, Token("None", <<>>), NoError)

Init ==
    /\ pc = "prompt"
    /\ line = <<>>
    /\ parser = NoParser
    /\ ast = NoNode
    /\ generator = NewGenerator
    /\ calls = 0
    /\ out = <<>>
    /\ exc = NoError
    /\ errOut = ""

\* getline succeeds; the generator, the lexer and the parser of the line
\* are constructed, the parser pulling its first token.
ReadLine ==
    /\ pc = "prompt"
    /\ \E text \in InputLines :
          /\ line' = text
          /\ parser' = NewParser(text)
    /\ generator' = NewGenerator
    /\ calls' = 0
    /\ exc' = parser'.err
    /\ pc' = IF parser'.err = NoError THEN "parse" ELSE "catch"
    /\ UNCHANGED <<ast, out, errOut>>

\* auto ast = parser->ParseAddSub();
ParseStep ==
    /\ pc = "parse"
    /\ LET r == ParseAddSub(line, parser)
       IN  /\ parser' = r.ps
           /\ ast' = r.node
           /\ exc' = r.ps.err
           /\ pc' = IF r.ps.err = NoError THEN "generate" ELSE "catch"
    /\ UNCHANGED <<line, generator, calls, out, errOut>>

\* std::cout << generator->Generate(*ast) << std::endl;
GenerateStep ==
    /\ pc = "generate"
    /\ generator' = Generate(generator, ast)
    /\ calls' = calls + 1
    /\ out' = generator'.m_code \o NewLine
    /\ pc' = "printed"
    /\ UNCHANGED <<line, parser, ast, exc, errOut>>

\* catch (...) { std::cerr << "invalid expression" << std::endl; }
Catch ==
    /\ pc = "catch"
    /\ errOut' = "invalid expression"
    /\ pc' = "reported"
    /\ UNCHANGED <<line, parser, ast, generator, calls, out, exc>>

\* The end of the loop body: the generator, the parser and the tree of the
\* line are destroyed and main prints the next prompt. The text of `line`
\* is dead from here on (getline erases it before it reads), so it is
\* cleared with them, together with the record of what the line printed.
NextIteration ==
    /\ pc \in {"printed", "reported"}
    /\ pc' = "prompt"
    /\ line' = <<>>
    /\ parser' = NoParser
    /\ ast' = NoNode
    /\ generator' = NewGenerator
    /\ calls' = 0
    /\ out' = <<>>
    /\ exc' = NoError
    /\ errOut' = ""

\* getline fails at the end of the input and main returns.
EndOfInput ==
    /\ pc = "prompt"
    /\ pc' = "exit"
    /\ UNCHANGED <<line, parser, ast, generator, calls, out, exc, errOut>>

Next ==
    \/ ReadLine
    \/ ParseStep
    \/ GenerateStep
    \/ Catch
    \/ NextIteration
    \/ EndOfInput

Spec == Init /\ [][Next]_vars

\* ------------------------------------------------ reading the printed IR

\* The pieces of s between occurrences of sep.
Split(s, sep) ==
    LET at == {i \in 1..Len(s) : s[i] = sep}
        n == Cardinality(at)
        nth(k) == CHOOSE i \in at : Cardinality({j \in at : j < i}) = k - 1
        from(k) == IF k = 1 THEN 1 ELSE nth(k - 1) + 1
        to(k) == IF k = n + 1 THEN Len(s) ELSE nth(k) - 1
    IN  [k \in 1..(n + 1) |-> SubSeq(s, from(k), to(k))]

\* The lines of a text that ends with a line break.
TextLines(text) ==
    LET pieces == Split(text, "\n")
    IN  SubSeq(pieces, 1, Len(pieces) - 1)

\* The words of a line: <<dest, "=", ...>>.
Fields(l) == Split(l, " ")

Dest(l) == Fields(l)[1]

\* The instruction lines of a printed program: all but the %result line.
Instructions(text) ==
    LET ls == TextLines(text)
    IN  SubSeq(ls, 1, Len(ls) - 1)

ResultLine(text) ==
    LET ls == TextLines(text)
    IN  ls[Len(ls)]

\* Length of the run of digits a register name ends with.
RECURSIVE TrailingDigits(_)
TrailingDigits(name) ==
    IF name # <<>> /\ IsDigit(name[Len(name)])
    THEN 1 + TrailingDigits(SubSeq(name, 1, Len(name) - 1))
    ELSE 0

RegisterStem(name) == SubSeq(name, 1, Len(name) - TrailingDigits(name))

RegisterNumber(name) ==
    DigitsValue(SubSeq(name, Len(name) - TrailingDigits(name) + 1, Len(name)))

\* Number of nodes of a tree: the number of instructions it is lowered to.
RECURSIVE Size(_)
Size(node) ==
    IF node.kind = "Binary" THEN Size(node.left) + Size(node.right) + 1 ELSE 1

OperatorWord(op) ==
    CASE op = "+" -> <<"a", "d", "d">>
      [] op = "-" -> <<"s", "u", "b">>
      [] op = "*" -> <<"m", "u", "l">>
      [] op = "/" -> <<"d", "i", "v">>

\* The instructions ins[first .. first + Size(node) - 1] are the post-order
\* lowering of node: the left subtree's, then the right subtree's, then one
\* operator instruction on the registers the two subtrees end with.
RECURSIVE IsPostOrder(_, _, _)
IsPostOrder(node, ins, first) ==
    LET last == first + Size(node) - 1
        f == Fields(ins[last])
    IN  CASE node.kind = "Variable" ->
                /\ Len(f) = 3
                /\ f[3] = <<"%">> \o node.name
          [] node.kind = "Number" ->
                /\ Len(f) = 3
                /\ f[3] = ToStringDouble(node.value)
          [] node.kind = "Binary" ->
                /\ IsPostOrder(node.left, ins, first)
                /\ IsPostOrder(node.right, ins, first + Size(node.left))
                /\ Len(f) = 5
                /\ f[3] = OperatorWord(node.op)
                /\ f[4] = Dest(ins[first + Size(node.left) - 1])
                /\ f[5] = Dest(ins[last - 1])

ReadmeLine ==
    <<"(", "1", " ", "+", " ", "2", ")", " ", "/", " ", "3", " ", "*", " ", "5">>

\* The output the README shows for ReadmeLine.
ReadmeOutput ==
    <<"%", "x", "1", " ", "=", " ", "1", ".", "0", "0", "0", "0", "0", "0", "\n">>
    \o <<"%", "x", "2", " ", "=", " ", "2", ".", "0", "0", "0", "0", "0", "0", "\n">>
    \o <<"%", "a", "d", "d", "t", "m", "p", "3", " ", "=", " ", "a", "d", "d", " ",
         "%", "x", "1", " ", "%", "x", "2", "\n">>
    \o <<"%", "x", "4", " ", "=", " ", "3", ".", "0", "0", "0", "0", "0", "0", "\n">>
    \o <<"%", "d", "i", "v", "t", "m", "p", "5", " ", "=", " ", "d", "i", "v", " ",
         "%", "a", "d", "d", "t", "m", "p", "3", " ", "%", "x", "4", "\n">>
    \o <<"%", "x", "6", " ", "=", " ", "5", ".", "0", "0", "0", "0", "0", "0", "\n">>
    \o <<"%", "m", "u", "l", "t", "m", "p", "7", " ", "=", " ", "m", "u", "l", " ",
         "%", "d", "i", "v", "t", "m", "p", "5", " ", "%", "x", "6", "\n">>
    \o <<"%", "r", "e", "s", "u", "l", "t", " ", "=", " ",
         "%", "m", "u", "l", "t", "m", "p", "7", "\n">>

\* C1: the program printed for a parsed tree is its post-order lowering:
\* per BinaryExpr the left subtree's instructions, then the right subtree's,
\* then one instruction of the operator whose first operand is the register
\* the left subtree ends with and whose second is the one the right subtree
\* ends with; a tree of two leaves gives loads %x1, %x2 and one operator
\* instruction on %x1 %x2; the README line gives the README's output.
PostOrderEmission ==
    pc = "printed" =>
        /\ Len(Instructions(out)) = Size(ast)
        /\ IsPostOrder(ast, Instructions(out), 1)
        /\ (ast.kind = "Binary" /\ Size(ast) = 3 =>
                LET f == Fields(Instructions(out)[3])
                IN  /\ Dest(Instructions(out)[1]) = <<"%", "x", "1">>
                    /\ Dest(Instructions(out)[2]) = <<"%", "x", "2">>
                    /\ <<f[4], f[5]>> = << <<"%", "x", "1">>, <<"%", "x", "2">> >>)
        /\ (line = ReadmeLine => out = ReadmeOutput)

\* C1 witness: the README line has been lowered, an operator instruction
\* taking the result of an earlier operator instruction.
PostOrderEmissionWitness ==
    /\ pc = "printed"
    /\ line = ReadmeLine
    /\ ast.kind = "Binary"
    /\ ast.left.kind = "Binary"
    /\ ast.left.left.kind = "Binary"

\* ------------------------------------------------- reading the token run

\* The tokens GetNextToken yields from pos up to EndOfFile; a token of type
\* "None" stands where the lexer throws.
RECURSIVE TokensFrom(_, _)
TokensFrom(text, pos) ==
    LET r == GetNextToken(text, pos)
    IN  IF r.err # NoError THEN <<Token("None", <<>>)>>
        ELSE IF r.tok.type = "EndOfFile" THEN <<>>
        ELSE <<r.tok>> \o TokensFrom(text, r.pos)

Tokens(text) == TokensFrom(text, 0)

Lexes(text) == \A i \in 1..Len(Tokens(text)) : Tokens(text)[i].type # "None"

\* Parentheses open before token i.
DepthBefore(toks, i) ==
    Cardinality({j \in 1..(i - 1) : toks[j].type = "LeftParen"})
    - Cardinality({j \in 1..(i - 1) : toks[j].type = "RightParen"})

Max(S) == CHOOSE x \in S : \A y \in S : y <= x

OperatorChar(type) ==
    CASE type = "Plus" -> "+"
      [] type = "Minus" -> "-"
      [] type = "Mul" -> "*"
      [] type = "Div" -> "/"

\* The tree the grammar gives a token run, found without the parser: split
\* at the last + or - outside parentheses; if there is none, at the last *
\* or /; if there is none either, the run is an atom or a parenthesised
\* run. NoNode when the run is no expression of the grammar (or holds a
\* literal std::stoi cannot convert).
RECURSIVE GrammarTree(_)
GrammarTree(toks) ==
    LET n == Len(toks)
        outer(types) == {i \in 1..n : toks[i].type \in types
                                      /\ DepthBefore(toks, i) = 0}
        addSub == outer({"Plus", "Minus"})
        mulDiv == outer({"Mul", "Div"})
        at == IF addSub # {} THEN Max(addSub) ELSE Max(mulDiv)
        l == GrammarTree(SubSeq(toks, 1, at - 1))
        r == GrammarTree(SubSeq(toks, at + 1, n))
    IN  IF n = 0 THEN NoNode
        ELSE IF addSub # {} \/ mulDiv # {}
        THEN IF l = NoNode \/ r = NoNode THEN NoNode
             ELSE BinaryExpressionAST(l, r, OperatorChar(toks[at].type))
        ELSE IF n = 1 /\ toks[1].type = "Number"
        THEN IF Stoi(toks[1].value) = OutOfRange THEN NoNode
             ELSE NumberAST(Stoi(toks[1].value))
        ELSE IF n = 1 /\ toks[1].type = "Identifier"
        THEN VariableRefAST(toks[1].value)
        ELSE IF n >= 3 /\ toks[1].type = "LeftParen" /\ toks[n].type = "RightParen"
        THEN GrammarTree(SubSeq(toks, 2, n - 1))
        ELSE NoNode

\* The line is a valid expression of the grammar.
ValidExpression(text) == Lexes(text) /\ GrammarTree(Tokens(text)) # NoNode

ChainLine == <<"a", " ", "-", " ", "b", " ", "-", " ", "c">>

ChainOutput ==
    <<"%", "x", "1", " ", "=", " ", "%", "a", "\n">>
    \o <<"%", "x", "2", " ", "=", " ", "%", "b", "\n">>
    \o <<"%", "s", "u", "b", "t", "m", "p", "3", " ", "=", " ", "s", "u", "b", " ",
         "%", "x", "1", " ", "%", "x", "2", "\n">>
    \o <<"%", "x", "4", " ", "=", " ", "%", "c", "\n">>
    \o <<"%", "s", "u", "b", "t", "m", "p", "5", " ", "=", " ", "s", "u", "b", " ",
         "%", "s", "u", "b", "t", "m", "p", "3", " ", "%", "x", "4", "\n">>
    \o <<"%", "r", "e", "s", "u", "l", "t", " ", "=", " ",
         "%", "s", "u", "b", "t", "m", "p", "5", "\n">>

\* C2: for every line that is a valid expression of the grammar (with
\* literals std::stoi converts), ParseAddSub returns the tree in which * and
\* / bind tighter than + and - and chains of one level associate to the
\* left; a - b - c is lowered as (a - b) first, then its result with c.
LeftAssociativePrecedence ==
    /\ (pc \in {"generate", "catch"} /\ ValidExpression(line) =>
            /\ pc = "generate"
            /\ ast = GrammarTree(Tokens(line)))
    /\ (pc = "printed" /\ line = ChainLine => out = ChainOutput)

\* C2 witness: a - b - c has been parsed into ((a - b) - c).
LeftAssociativePrecedenceWitness ==
    /\ pc = "generate"
    /\ line = ChainLine
    /\ ast = BinaryExpressionAST(
                 BinaryExpressionAST(VariableRefAST(<<"a">>),
                                     VariableRefAST(<<"b">>), "-"),
                 VariableRefAST(<<"c">>), "-")

RegisterStems ==
    {RegisterPrefix(op) : op \in {"x", "+", "-", "*", "/"}}

\* C3: in a printed program the k-th instruction's destination is a
\* register of one of the five stems numbered exactly k, so ids start at 1
\* and rise by 1 and no destination occurs twice.
SequentialRegisterIds ==
    pc = "printed" =>
        LET ins == Instructions(out)
        IN  /\ \A k \in 1..Len(ins) :
                  /\ RegisterStem(Dest(ins[k])) \in RegisterStems
                  /\ Dest(ins[k]) = RegisterStem(Dest(ins[k])) \o IntToString(k)
                  /\ RegisterNumber(Dest(ins[k])) = k
            /\ \A j, k \in 1..Len(ins) : j # k => Dest(ins[j]) # Dest(ins[k])

\* C3 witness: a program of more than ten instructions mixing loads and
\* operator temporaries has been printed.
SequentialRegisterIdsWitness ==
    /\ pc = "printed"
    /\ Len(Instructions(out)) > 10
    /\ ast.kind = "Binary"

\* C4: when Generate has returned, the evaluation stack holds exactly one
\* register name, it is the destination of the last instruction emitted,
\* and the last line of the text is %result = that register.
ResultIsLastRegister ==
    pc = "printed" =>
        LET ins == Instructions(out)
        IN  /\ Len(generator.m_registers) = 1
            /\ generator.m_registers[1] = Dest(ins[Len(ins)])
            /\ ResultLine(out) = ResultPrefix \o generator.m_registers[1]
            /\ out = generator.m_code \o NewLine

\* C4 witness: a tree of nested operators has been lowered and printed.
ResultIsLastRegisterWitness ==
    /\ pc = "printed"
    /\ ast.kind = "Binary"
    /\ ast.right.kind = "Binary"
    /\ Len(generator.m_registers) = 1

OperatorTypes == {"Plus", "Minus", "Mul", "Div"}

AtomStarts == {"Number", "Identifier", "LeftParen"}

\* C5: a tree is returned, and IR printed, only when the token after the
\* parsed expression is EndOfFile; trailing tokens are a ParseError.
TrailingTokensRejected ==
    pc \in {"generate", "printed"} => parser.tok.type = "EndOfFile"

\* Token i is a ( that no later ) closes.
UnmatchedLeftParen(toks, i) ==
    /\ toks[i].type = "LeftParen"
    /\ \A j \in (i + 1)..Len(toks) :
          DepthBefore(toks, j + 1) > DepthBefore(toks, i)

\* The token run is empty, starts with an operator, has an unmatched ( or
\* has an operator that no atom follows.
Malformed(toks) ==
    \/ toks = <<>>
    \/ toks[1].type \in OperatorTypes
    \/ \E i \in 1..Len(toks) : UnmatchedLeftParen(toks, i)
    \/ \E i \in 1..Len(toks) :
          /\ toks[i].type \in OperatorTypes
          /\ (i = Len(toks) \/ toks[i + 1].type \notin AtomStarts)

\* C6: a line with an unmatched (, an empty or whitespace-only line, a line
\* that starts with an operator and a line with an operator no atom follows
\* each fail with a ParseError; no tree is returned, Generate never runs and
\* nothing is printed.
MalformedLineRejected ==
    pc \in {"generate", "catch", "printed", "reported"}
    /\ Lexes(line) /\ Malformed(Tokens(line)) =>
        /\ pc \in {"catch", "reported"}
        /\ exc.kind = "ParseError"
        /\ ast = NoNode
        /\ out = <<>>

\* Behind C6: a malformed line that does not end in a ParseError of Eat or
\* ParseAtom is one where ParseAddSub returned with a token other than
\* EndOfFile as the lookahead, the case C5 is about.
MalformedLineRejectedUnlessTrailing ==
    pc \in {"generate", "catch", "printed", "reported"}
    /\ Lexes(line) /\ Malformed(Tokens(line)) =>
        \/ /\ pc \in {"catch", "reported"}
           /\ exc \in {ParseError("can't eat that token"),
                       ParseError("can't parse atom")}
           /\ ast = NoNode
           /\ out = <<>>
        \/ /\ pc \in {"generate", "printed"}
           /\ parser.tok.type # "EndOfFile"

\* Zero-based position of the first character of the line, from pos on,
\* that is neither whitespace, a digit, a letter, one of + - * / ( ), a .
\* directly after the digits a number starts with, nor an underscore inside
\* an identifier; Len(text) if there is none. mode tells what the
\* characters before pos left open: the integer part of a number ("int"),
\* its fraction ("frac"), an identifier ("ident") or nothing ("none").
RECURSIVE FirstUnrecognisedFrom(_, _, _)
FirstUnrecognisedFrom(text, pos, mode) ==
    IF pos >= Len(text) THEN Len(text)
    ELSE LET ch == text[pos + 1]
         IN  CASE IsDigit(ch) ->
                    FirstUnrecognisedFrom(text, pos + 1,
                        IF mode = "none" THEN "int" ELSE mode)
               [] IsAlpha(ch) -> FirstUnrecognisedFrom(text, pos + 1, "ident")
               [] ch = "_" /\ mode = "ident" ->
                    FirstUnrecognisedFrom(text, pos + 1, "ident")
               [] ch = "." /\ mode = "int" ->
                    FirstUnrecognisedFrom(text, pos + 1, "frac")
               [] IsSpace(ch) \/ ch \in {"+", "-", "*", "/", "(", ")"} ->
                    FirstUnrecognisedFrom(text, pos + 1, "none")
               [] OTHER -> pos

FirstUnrecognised(text) == FirstUnrecognisedFrom(text, 0, "none")

HasUnrecognised(text) == FirstUnrecognised(text) < Len(text)

\* What the constructor of Parser and ParseAddSub leave for a line.
ParseLine(text) ==
    LET ps == NewParser(text)
    IN  IF ps.err # NoError THEN Thrown(ps) ELSE ParseAddSub(text, ps)

\* C7 as stated: every line holding a character the lexer does not
\* recognise fails with the LexError of the first such character and its
\* zero-based position, whatever precedes it.
UnrecognisedCharacterIsLexError ==
    pc \in {"generate", "catch"} /\ HasUnrecognised(line) =>
        /\ pc = "catch"
        /\ exc = LexError(FirstUnrecognised(line),
                          line[FirstUnrecognised(line) + 1])

\* C7 as amended: a LexError is thrown only for the first unrecognised
\* character of the line and names it and its zero-based position; it is
\* thrown exactly when the parser asks for the token at that character,
\* which is when parsing the text before the character ends with EndOfFile
\* as the lookahead. Otherwise the parse of that text ends first, with the
\* same tree or ParseError as for the text alone, and the character is
\* never scanned.
LexErrorWhenScanned ==
    pc \in {"generate", "catch"} =>
        LET p == FirstUnrecognised(line)
            before == ParseLine(SubSeq(line, 1, p))
        IN  /\ exc.kind = "LexError" => HasUnrecognised(line)
            /\ HasUnrecognised(line) =>
                  /\ exc.kind = "LexError" <=> before.ps.tok.type = "EndOfFile"
                  /\ exc.kind = "LexError" =>
                        /\ pc = "catch"
                        /\ exc = LexError(p, line[p + 1])
                        /\ ast = NoNode
                  /\ exc.kind # "LexError" =>
                        /\ exc = before.ps.err
                        /\ ast = before.node
                        /\ parser.pos <= p

DollarLine == <<"1", " ", "$", " ", "2">>

\* C7 witness: 1 $ 2 has failed with the LexError of $ at position 2, the
\* token 1 preceding it.
LexErrorWhenScannedWitness ==
    /\ pc = "catch"
    /\ line = DollarLine
    /\ exc = LexError(2, "$")

\* The line is one numeric literal as the lexer scans it, and nothing else.
LiteralLine(text) ==
    /\ text # <<>>
    /\ Tokens(text) = <<Token("Number", text)>>

IntegerDigits(text) == SubSeq(text, 1, ScanDigits(text, 0))

FractionDigits(text) ==
    IF ScanDigits(text, 0) < Len(text)
    THEN SubSeq(text, ScanDigits(text, 0) + 2, Len(text))
    ELSE <<>>

\* The value of a literal with six digits after the decimal point (for a
\* literal of at most six fraction digits).
SixDecimals(text) ==
    IntToString(DigitsValue(IntegerDigits(text))) \o <<".">>
    \o FractionDigits(text)
    \o [i \in 1..(6 - Len(FractionDigits(text))) |-> "0"]

\* C8: a line that is one numeric literal N gives exactly the two lines
\* %x1 = <value of N with six decimals> and %result = %x1, the value being
\* that of the whole literal, fraction included.
LiteralValuePreserved ==
    pc = "printed" /\ LiteralLine(line) /\ Len(FractionDigits(line)) <= 6 =>
        out = <<"%", "x", "1", " ", "=", " ">> \o SixDecimals(line) \o NewLine
              \o ResultPrefix \o <<"%", "x", "1">> \o NewLine

\* C9: the symbolic operand %<identifier> of a variable load is never the
\* name of a register the same program defines.
OperandNamesDistinctFromRegisters ==
    pc = "printed" =>
        LET ins == Instructions(out)
        IN  \A k \in 1..Len(ins) :
                Len(Fields(ins[k])) = 3 /\ Fields(ins[k])[3][1] = "%" =>
                    \A j \in 1..Len(ins) : Dest(ins[j]) # Fields(ins[k])[3]

\* ------------------------------------- Generate called on one generator

\* The trees handed to Generate: those of the short valid lines.
ReuseLines == {t \in Strings(ExprAlphabet, MaxReuseLen) : ValidExpression(t)}

InitReuse ==
    /\ pc = "idle"
    /\ line = <<>>
    /\ parser = NoParser
    /\ ast = NoNode
    /\ generator = NewGenerator
    /\ calls = 0
    /\ out = <<>>
    /\ exc = NoError
    /\ errOut = ""

\* A caller constructs a SimpleCodeGenerator.
Construct ==
    /\ pc \in {"idle", "returned"}
    /\ calls > 0
    /\ pc' = "idle"
    /\ generator' = NewGenerator
    /\ calls' = 0
    /\ line' = <<>>
    /\ ast' = NoNode
    /\ out' = <<>>
    /\ UNCHANGED <<parser, exc, errOut>>

\* A caller calls Generate on the generator it holds, with the tree of a
\* line; out is the text returned.
CallGenerate ==
    /\ pc \in {"idle", "returned"}
    /\ calls < MaxCalls
    /\ \E text \in ReuseLines :
          /\ line' = text
          /\ ast' = ParseLine(text).node
    /\ generator' = Generate(generator, ast')
    /\ out' = generator'.m_code
    /\ calls' = calls + 1
    /\ pc' = "returned"
    /\ UNCHANGED <<parser, exc, errOut>>

NextReuse == Construct \/ CallGenerate

SpecReuse == InitReuse /\ [][NextReuse]_vars

\* C10: the text each Generate call returns holds only the instructions of
\* the tree passed to that call, numbered from 1: it is what a fresh
\* generator returns for that tree, also on the second call on one object.
GenerateScopedToCall ==
    pc = "returned" => out = Generate(NewGenerator, ast).m_code

====
